---- MODULE Spec2Model ----
(***************************************************************************)
(* A model of the HackerNews "Who's Hiring" scraper (src/scraper.py) and   *)
(* of the MCP adapter built on it (src/mcp_server.py).                     *)
(*                                                                         *)
(* Strings are sequences of one-character strings, so that len(), strip(), *)
(* lower(), the substring test and the JSON escaping are computed and not  *)
(* assumed.  The clock is in whole seconds.                                *)
(***************************************************************************)
EXTENDS Integers, Sequences, FiniteSets, TLC

VARIABLES
    now,      \* datetime.now().timestamp(), in seconds
    cli,      \* a HackerNewsScraper built by a direct caller (scraper.py __main__)
    files,    \* the cache directory: path -> file (exists, content, mtime)
    last,     \* per thread id, the record of the last scrape_job_postings call
    scraper,  \* mcp_server.py's global `scraper`
    resp,     \* how the last call_tool / read_resource call ended
    pc,       \* "main", or the position of a pure-function run
    pIn,      \* the input of a pure-function run
    pOut      \* the output of a pure-function run

vars == <<now, cli, files, last, scraper, resp, pc, pIn, pOut>>

(***************************************************************************)
(* Bounds of the model.                                                    *)
(***************************************************************************)
MaxCalls == 2
MaxRows == 3
MaxQuery == 2
MaxPostings == 2

(***************************************************************************)
(* Program constants.                                                      *)
(***************************************************************************)
TTL == 3600
MinLen == 100
MaxShown == 20
PreviewLen == 300

None == "None"

DefaultThread == <<"4", "4", "4", "3", "4", "5", "7", "4">>
OtherThread == <<"7">>
ThreadIds == {DefaultThread, OtherThread}

(***************************************************************************)
(* Strings.                                                                *)
(***************************************************************************)
Rep(n, c) == [i \in 1..n |-> c]

\* the member of a one-element set: {F(x) : x \in {e}} computes e once
The(S) == CHOOSE x \in S : TRUE

IsSpace(c) == c \in {" ", "\n", "\t"}

\* str.strip(): the text without its leading and trailing white space
Strip(s) ==
    LET lead == Cardinality({i \in 1..Len(s) : \A j \in 1..i : IsSpace(s[j])})
        trail == Cardinality({i \in 1..Len(s) : \A j \in i..Len(s) : IsSpace(s[j])})
    IN  IF lead = Len(s) THEN <<>> ELSE SubSeq(s, lead + 1, Len(s) - trail)

\* str.lower(), on the letters of the model's alphabet
LowerChar(c) ==
    CASE c = "A" -> "a"
      [] c = "B" -> "b"
      [] c = "Q" -> "q"
      [] c = "R" -> "r"
      [] OTHER -> c

Lower(s) == [i \in 1..Len(s) |-> LowerChar(s[i])]

\* Python's `needle in hay` on strings
Contains(hay, needle) ==
    \E k \in 0..(Len(hay) - Len(needle)) :
        SubSeq(hay, k + 1, k + Len(needle)) = needle

DigitChars == <<"0", "1", "2", "3", "4", "5", "6", "7", "8", "9">>

RECURSIVE Digits(_)
Digits(n) ==
    IF n < 10 THEN <<DigitChars[n + 1]>>
    ELSE Digits(n \div 10) \o <<DigitChars[(n % 10) + 1]>>

\* datetime.now().isoformat(): the clock value written out as text
IsoFormat(t) == <<"T">> \o Digits(t)

(***************************************************************************)
(* The extractor: lines 36-78 of scrape_job_postings.                      *)
(* A markup is the sequence of the rows soup.find_all('tr',                *)
(* class_='athing comtr') matches, in document order.  A row holds its id  *)
(* attribute, its div.comment (present or not, as the sequence of its text *)
(* fragments), its a.hnuser and its span.age.                              *)
(***************************************************************************)
\* Tag.get_text(strip=True): every text fragment stripped, the empty ones
\* dropped, the rest joined with the empty separator
RECURSIVE GetTextStrip(_)
GetTextStrip(frags) ==
    IF frags = <<>> THEN <<>>
    ELSE Strip(Head(frags)) \o GetTextStrip(Tail(frags))

TooShortLoose(text) == Len(text) <= MinLen

\* `if len(comment_text) < 100: continue`
TooShort(text) == Len(text) < MinLen

Unknown == <<"U", "n", "k", "n", "o", "w", "n">>

MakePosting(row, text, tid, t) ==
    [id |-> row.id,
     author |-> IF row.author.present THEN Strip(row.author.name) ELSE Unknown,
     timestamp |-> IF row.age.present THEN row.age.title ELSE <<>>,
     text |-> text,
     scraped_at |-> IsoFormat(t),
     thread_id |-> tid]

\* the `for comment in comments` loop, from row i on, with job_postings = acc
RECURSIVE ExtractFrom(_, _, _, _, _)
ExtractFrom(rows, i, acc, tid, t) ==
    IF i > Len(rows) THEN acc
    ELSE LET row == rows[i]
             text == GetTextStrip(row.body.frags)
         IN  IF ~row.body.present THEN ExtractFrom(rows, i + 1, acc, tid, t)
             ELSE IF TooShort(text) THEN ExtractFrom(rows, i + 1, acc, tid, t)
             ELSE ExtractFrom(rows, i + 1,
                              Append(acc, MakePosting(row, text, tid, t)), tid, t)

Extract(rows, tid, t) == ExtractFrom(rows, 1, <<>>, tid, t)

(***************************************************************************)
(* search_jobs                                                             *)
(***************************************************************************)
RECURSIVE SearchFrom(_, _, _, _)
SearchFrom(query_lower, job_postings, i, matching_jobs) ==
    IF i > Len(job_postings) THEN matching_jobs
    ELSE IF Contains(Lower(job_postings[i].text), query_lower)
         THEN SearchFrom(query_lower, job_postings, i + 1,
                         Append(matching_jobs, job_postings[i]))
         ELSE SearchFrom(query_lower, job_postings, i + 1, matching_jobs)

search_jobs_keep_case(query, job_postings) ==
    SearchFrom(query, job_postings, 1, <<>>)

search_jobs(query, job_postings) ==
    SearchFrom(Lower(query), job_postings, 1, <<>>)

(***************************************************************************)
(* json.dump and json.load.  A file's content is the sequence of the JSON  *)
(* tokens written to it; white space (indent=2) is not significant and is  *)
(* left out.  A string token holds the escaped text between its quotes.    *)
(***************************************************************************)
Tok(t) == [t |-> t, s |-> <<>>]
StrTok(s) == [t |-> "str", s |-> s]

\* json.encoder's escaping of a character (ensure_ascii, on this alphabet)
EscapeChar(c) ==
    CASE c = "\"" -> <<"\\", "\"">>
      [] c = "\\" -> <<"\\", "\\">>
      [] c = "\n" -> <<"\\", "n">>
      [] c = "\t" -> <<"\\", "t">>
      [] OTHER -> <<c>>

NeedsEscape(c) == EscapeChar(c) # <<c>>

\* the text between the quotes of a string's JSON form: the plain stretches
\* copied, each other character escaped
RECURSIVE EscapeStr(_)
EscapeStr(s) ==
    LET special == {i \in 1..Len(s) : NeedsEscape(s[i])}
    IN  IF special = {} THEN s
        ELSE LET i == CHOOSE i \in special : \A j \in special : i <= j
             IN  SubSeq(s, 1, i - 1) \o EscapeChar(s[i]) \o EscapeStr(SubSeq(s, i + 1, Len(s)))

UnescapeChar(c) ==
    CASE c = "n" -> "\n"
      [] c = "t" -> "\t"
      [] OTHER -> c

\* the text of a string token, or ok = FALSE for an invalid escape or a
\* bare quote: the plain stretches copied, each escape decoded
RECURSIVE Unescape(_)
Unescape(s) ==
    LET special == {i \in 1..Len(s) : s[i] \in {"\\", "\""}}
    IN  IF special = {} THEN [ok |-> TRUE, s |-> s]
        ELSE LET i == CHOOSE i \in special : \A j \in special : i <= j
                 rest == Unescape(SubSeq(s, i + 2, Len(s)))
             IN  IF s[i] = "\"" \/ i = Len(s) THEN [ok |-> FALSE, s |-> <<>>]
                 ELSE IF s[i + 1] \notin {"\"", "\\", "n", "t"} THEN [ok |-> FALSE, s |-> <<>>]
                 ELSE IF ~rest.ok THEN rest
                 ELSE [ok |-> TRUE,
                       s |-> SubSeq(s, 1, i - 1) \o <<UnescapeChar(s[i + 1])>> \o rest.s]

\* the keys of a posting, in the dict's insertion order (lines 65-72)
PostingKeys == <<"id", "author", "timestamp", "text", "scraped_at", "thread_id">>

KeyText ==
    [id |-> <<"i", "d">>,
     author |-> <<"a", "u", "t", "h", "o", "r">>,
     timestamp |-> <<"t", "i", "m", "e", "s", "t", "a", "m", "p">>,
     text |-> <<"t", "e", "x", "t">>,
     scraped_at |-> <<"s", "c", "r", "a", "p", "e", "d", "_", "a", "t">>,
     thread_id |-> <<"t", "h", "r", "e", "a", "d", "_", "i", "d">>]

RECURSIVE DumpMembers(_, _)
DumpMembers(job, i) ==
    LET k == PostingKeys[i]
        member == <<StrTok(EscapeStr(KeyText[k])), Tok(":"), StrTok(EscapeStr(job[k]))>>
    IN  IF i = Len(PostingKeys) THEN member
        ELSE member \o <<Tok(",")>> \o DumpMembers(job, i + 1)

DumpObject(job) == <<Tok("{")>> \o DumpMembers(job, 1) \o <<Tok("}")>>

RECURSIVE DumpElements(_, _)
DumpElements(jobs, i) ==
    IF i = Len(jobs) THEN DumpObject(jobs[i])
    ELSE DumpObject(jobs[i]) \o <<Tok(",")>> \o DumpElements(jobs, i + 1)

\* the chunks json.dump(job_postings, f, indent=2) writes, in order
JsonDump(jobs) ==
    IF jobs = <<>> THEN <<Tok("["), Tok("]")>>
    ELSE <<Tok("[")>> \o DumpElements(jobs, 1) \o <<Tok("]")>>

JsonFail == [ok |-> FALSE, val |-> <<>>, next |-> 0]

\* the members of an object from token i (a key) on; val is the sequence of
\* <<key text, value text>> pairs
RECURSIVE ParseMembers(_, _, _)
ParseMembers(toks, i, acc) ==
    IF i + 3 > Len(toks) THEN JsonFail
    ELSE IF toks[i].t # "str" \/ toks[i + 1].t # ":" \/ toks[i + 2].t # "str"
         THEN JsonFail
    ELSE LET k == Unescape(toks[i].s)
             v == Unescape(toks[i + 2].s)
             acc2 == Append(acc, <<k.s, v.s>>)
         IN  IF ~k.ok \/ ~v.ok THEN JsonFail
             ELSE IF toks[i + 3].t = "," THEN ParseMembers(toks, i + 4, acc2)
             ELSE IF toks[i + 3].t = "}"
                  THEN [ok |-> TRUE, val |-> acc2, next |-> i + 4]
             ELSE JsonFail

\* the dict of a sequence of pairs: a later pair of a key replaces an earlier
DictOf(pairs) ==
    LET names == {n \in DOMAIN KeyText : \E j \in 1..Len(pairs) : pairs[j][1] = KeyText[n]}
        lastOf(n) == CHOOSE j \in 1..Len(pairs) :
                        /\ pairs[j][1] = KeyText[n]
                        /\ \A j2 \in (j + 1)..Len(pairs) : pairs[j2][1] # KeyText[n]
    IN  [n \in names |-> pairs[lastOf(n)][2]]

ObjectOf(m) ==
    IF ~m.ok THEN JsonFail
    ELSE [ok |-> TRUE, val |-> DictOf(m.val), next |-> m.next]

ParseObject(toks, i) ==
    IF i + 1 > Len(toks) \/ toks[i].t # "{" THEN JsonFail
    ELSE IF toks[i + 1].t = "}" THEN [ok |-> TRUE, val |-> <<>>, next |-> i + 2]
    ELSE The({ObjectOf(m) : m \in {ParseMembers(toks, i + 1, <<>>)}})

\* the elements of the array from token i (an object) on
RECURSIVE ParseElements(_, _, _)
ParseElements(toks, i, acc) ==
    The({IF ~o.ok \/ o.next > Len(toks) THEN JsonFail
         ELSE IF toks[o.next].t = ","
              THEN ParseElements(toks, o.next + 1, Append(acc, o.val))
         ELSE IF toks[o.next].t = "]" /\ o.next = Len(toks)
              THEN [ok |-> TRUE, val |-> Append(acc, o.val), next |-> o.next + 1]
         ELSE JsonFail : o \in {ParseObject(toks, i)}})

\* json.load(f): ok = FALSE is json.JSONDecodeError
JsonLoad(toks) ==
    IF Len(toks) < 2 \/ toks[1].t # "[" THEN JsonFail
    ELSE IF toks[2].t = "]"
         THEN IF Len(toks) = 2 THEN [ok |-> TRUE, val |-> <<>>, next |-> 3]
              ELSE JsonFail
    ELSE ParseElements(toks, 2, <<>>)

(***************************************************************************)
(* The cache directory and scrape_job_postings.                            *)
(***************************************************************************)
\* os.path.join(self.cache_dir, f"hn_jobs_{hn_thread_id}.json")
CacheFile(tid) == <<"cache", "/", "hn_jobs_">> \o tid \o <<".json">>

Paths == {CacheFile(tid) : tid \in ThreadIds}

NoFile == [exists |-> FALSE, content |-> <<>>, mtime |-> 0]

IsFreshLoose(file, t) == file.exists /\ t - file.mtime <= TTL

IsFreshInverted(file, t) == file.exists /\ t - file.mtime > TTL

\* `os.path.exists(cache_file)` and `file_age < 3600`
IsFresh(file, t) == file.exists /\ t - file.mtime < TTL

\* requests.get / raise_for_status can raise these; both are
\* requests.RequestException
NetFailures == {"ConnectionError", "HTTPError"}

\* what the network answers: an exception, or the rows of the page
NetError(e) == [ok |-> FALSE, err |-> e, rows |-> <<>>]
NetPage(rows) == [ok |-> TRUE, err |-> None, rows |-> rows]

IsRequestException(e) == e \in {"ConnectionError", "HTTPError", "Timeout"}

\* a handler for the fetch failure that caches the empty result
OnFetchErrorCaching(fs, tid, t) ==
    [fs EXCEPT ![CacheFile(tid)] =
        [exists |-> TRUE, content |-> JsonDump(<<>>), mtime |-> t]]

\* `except requests.RequestException: ... return []`: the files it leaves
OnFetchError(fs, tid, t) == fs

\* What the disk does to a call: "ok"; "oserror" (the call's open() raises
\* OSError); "truncated" (the write stops before json.dump's first chunk and
\* raises); "cut" (it stops before json.dump's last chunk and raises)
IoOutcomes == {"ok", "oserror", "truncated", "cut"}

\* the disk outcomes the runs of the model draw from
IoInputs == {"ok", "oserror", "truncated", "cut"}

\* how many of json.dump's n chunks reach the file
Written(io, n) ==
    CASE io = "truncated" -> 0
      [] io = "cut" -> n - 1
      [] OTHER -> n

Ended(kind, exc, result, fs, hit, fetched, fetchOk) ==
    [kind |-> kind, exc |-> exc, result |-> result, files |-> fs,
     hit |-> hit, fetched |-> fetched, fetchOk |-> fetchOk]

\* `return json.load(f)`: the cache branch's end
Loaded(fs, loaded) ==
    IF loaded.ok THEN Ended("return", None, loaded.val, fs, TRUE, FALSE, FALSE)
    ELSE Ended("raise", "JSONDecodeError", <<>>, fs, TRUE, FALSE, FALSE)

\* `with open(cache_file, 'w') as f: json.dump(job_postings, f, indent=2)`
\* and `return job_postings`, chunks being what json.dump writes
Save(fs, t, cache_file, io, job_postings, chunks) ==
    IF io = "oserror"
    THEN \* open() raises: not a RequestException, so it propagates
         Ended("raise", "OSError", <<>>, fs, FALSE, TRUE, TRUE)
    ELSE IF io \in {"truncated", "cut"}
    THEN \* json.dump is cut short: the file keeps what was written
         Ended("raise", "OSError", <<>>,
               [fs EXCEPT ![cache_file] =
                   [exists |-> TRUE, mtime |-> t,
                    content |-> SubSeq(chunks, 1, Written(io, Len(chunks)))]],
               FALSE, TRUE, TRUE)
    ELSE Ended("return", None, job_postings,
               [fs EXCEPT ![cache_file] =
                   [exists |-> TRUE, mtime |-> t, content |-> chunks]],
               FALSE, TRUE, TRUE)

\* scrape_job_postings(hn_thread_id) at time t on the files fs, when the
\* network answers net (a failure or the rows of the page) and the disk
\* does io
ScrapeJobPostings(fs, t, tid, net, io) ==
    IF IsFresh(fs[CacheFile(tid)], t)
    THEN \* with open(cache_file, 'r') as f: return json.load(f)
         IF io = "oserror"
         THEN Ended("raise", "OSError", <<>>, fs, TRUE, FALSE, FALSE)
         ELSE The({Loaded(fs, loaded) : loaded \in {JsonLoad(fs[CacheFile(tid)].content)}})
    ELSE IF ~net.ok
    THEN IF IsRequestException(net.err)
         THEN Ended("return", None, <<>>, OnFetchError(fs, tid, t), FALSE, TRUE, FALSE)
         ELSE Ended("raise", net.err, <<>>, fs, FALSE, TRUE, FALSE)
    ELSE The({The({Save(fs, t, CacheFile(tid), io, job_postings, chunks) :
                      chunks \in {JsonDump(job_postings)}}) :
                 job_postings \in {Extract(net.rows, tid, t)}})

(***************************************************************************)
(* The adapter: mcp_server.py                                              *)
(***************************************************************************)
NoScraper == [made |-> FALSE, cache_dir |-> <<>>]

\* the keyword parameters HackerNewsScraper.__init__ declares
InitParams == {"cache_dir"}

\* HackerNewsScraper(**kwargs): an undeclared keyword raises TypeError
HackerNewsScraperInit(kwargs) ==
    IF kwargs \subseteq InitParams
    THEN [ok |-> TRUE, exc |-> None, obj |-> [made |-> TRUE, cache_dir |-> <<"cache">>]]
    ELSE [ok |-> FALSE, exc |-> "TypeError", obj |-> NoScraper]

\* get_scraper(): builds the global on first use, re-raising what the
\* constructor raises
get_scraper(sc) ==
    IF ~sc.made
    THEN LET r == HackerNewsScraperInit({"enable_cache"})
         IN  IF r.ok THEN [ok |-> TRUE, exc |-> None, scraper |-> r.obj]
             ELSE [ok |-> FALSE, exc |-> r.exc, scraper |-> sc]
    ELSE [ok |-> TRUE, exc |-> None, scraper |-> sc]

NoRun == Ended("none", None, <<>>, <<>>, FALSE, FALSE, FALSE)

\* how a call_tool / read_resource call ends: by returning msg (with a
\* count and a body) or by raising exc; sc is the global afterwards; ran
\* tells whether scrape_job_postings ran, and o is how it ended
CallEnd(kind, exc, msg, count, body, sc, ran, o) ==
    [kind |-> kind, exc |-> exc, msg |-> msg, count |-> count, body |-> body,
     scraper |-> sc, ran |-> ran, o |-> o]

Returns(msg, count, body, sc, ran, o) == CallEnd("return", None, msg, count, body, sc, ran, o)
Raises(exc, sc, ran, o) == CallEnd("raise", exc, "", 0, <<>>, sc, ran, o)

Preview(text) ==
    IF Len(text) > PreviewLen
    THEN SubSeq(text, 1, PreviewLen) \o <<".", ".", ".">>
    ELSE text

Summary(job) ==
    [id |-> job.id, author |-> job.author, timestamp |-> job.timestamp,
     preview |-> Preview(job.text)]

FirstN(seq, n) == SubSeq(seq, 1, IF Len(seq) < n THEN Len(seq) ELSE n)

ToolNames == {"search_jobs", "get_job_details", "refresh_jobs", "bogus"}

\* search_jobs, once scrape_job_postings ended as o (lines 138-161)
SearchTool(g, o, query) ==
    IF o.kind = "raise" THEN Raises(o.exc, g.scraper, TRUE, o)
    ELSE The({IF matching_jobs = <<>>
              THEN Returns("No jobs found matching", 0, <<>>, g.scraper, TRUE, o)
              ELSE Returns("Found", Len(matching_jobs),
                           [i \in 1..Len(FirstN(matching_jobs, MaxShown)) |->
                               Summary(matching_jobs[i])],
                           g.scraper, TRUE, o) :
                 matching_jobs \in {search_jobs(query, o.result)}})

\* get_job_details, once scrape_job_postings ended as o (lines 170-181)
DetailsTool(g, o, job_id) ==
    IF o.kind = "raise" THEN Raises(o.exc, g.scraper, TRUE, o)
    ELSE LET found == {i \in 1..Len(o.result) : o.result[i].id = job_id}
         IN  IF found = {}
             THEN Returns("Job not found", 0, <<>>, g.scraper, TRUE, o)
             ELSE Returns("Job", 1,
                          <<o.result[CHOOSE i \in found : \A j \in found : i <= j]>>,
                          g.scraper, TRUE, o)

\* refresh_jobs, once scrape_job_postings ended as o (lines 187-190)
RefreshTool(g, o) ==
    IF o.kind = "raise" THEN Raises(o.exc, g.scraper, TRUE, o)
    ELSE Returns("Refreshed job postings", Len(o.result), <<>>, g.scraper, TRUE, o)

\* call_tool(name, arguments); arguments.get(k, "") is the empty string
\* for an absent key; g is what get_scraper() does
call_tool(sc, fs, t, name, arguments, net, io) ==
    LET g == get_scraper(sc)
    IN  CASE name = "search_jobs" ->
               IF arguments.query = <<>>
               THEN Returns("Please provide a search query", 0, <<>>, sc, FALSE, NoRun)
               ELSE IF ~g.ok THEN Raises(g.exc, g.scraper, FALSE, NoRun)
               ELSE The({SearchTool(g, o, arguments.query) :
                            o \in {ScrapeJobPostings(fs, t, DefaultThread, net, io)}})
          [] name = "get_job_details" ->
               IF arguments.job_id = <<>>
               THEN Returns("Please provide a job ID", 0, <<>>, sc, FALSE, NoRun)
               ELSE IF ~g.ok THEN Raises(g.exc, g.scraper, FALSE, NoRun)
               ELSE The({DetailsTool(g, o, arguments.job_id) :
                            o \in {ScrapeJobPostings(fs, t, DefaultThread, net, io)}})
          [] name = "refresh_jobs" ->
               IF ~g.ok THEN Raises(g.exc, g.scraper, FALSE, NoRun)
               ELSE The({RefreshTool(g, o) :
                            o \in {ScrapeJobPostings(fs, t, DefaultThread, net, io)}})
          [] OTHER -> Returns("Unknown tool", 0, <<>>, sc, FALSE, NoRun)

Uris == {[scheme |-> "hn", path |-> "jobs/latest"],
         [scheme |-> "hn", path |-> "jobs/search"],
         [scheme |-> "hn", path |-> "jobs/other"],
         [scheme |-> "http", path |-> "jobs/latest"]}

\* hn://jobs/latest, once scrape_job_postings ended as o (lines 71-72)
LatestResource(g, o) ==
    IF o.kind = "raise" THEN Raises(o.exc, g.scraper, TRUE, o)
    ELSE Returns("jobs", Len(o.result), o.result, g.scraper, TRUE, o)

\* read_resource(uri)
read_resource(sc, fs, t, uri, net, io) ==
    LET g == get_scraper(sc)
    IN  IF uri.scheme # "hn" THEN Raises("ValueError", sc, FALSE, NoRun)
        ELSE IF uri.path = "jobs/latest"
        THEN IF ~g.ok THEN Raises(g.exc, g.scraper, FALSE, NoRun)
             ELSE The({LatestResource(g, o) :
                          o \in {ScrapeJobPostings(fs, t, DefaultThread, net, io)}})
        ELSE IF uri.path = "jobs/search"
        THEN Returns("Use the search_jobs tool", 0, <<>>, sc, FALSE, NoRun)
        ELSE Raises("ValueError", sc, FALSE, NoRun)

(***************************************************************************)
(* Inputs.                                                                 *)
(***************************************************************************)
Row(id, present, frags, author, title) ==
    [id |-> id,
     body |-> [present |-> present, frags |-> frags],
     author |-> [present |-> author # <<>>, name |-> author],
     age |-> [present |-> title # <<>>, title |-> title]]

\* exactly MinLen characters once stripped
RowLong ==
    Row(<<"1">>, TRUE, << <<" ">> \o Rep(MinLen - 1, "x") \o <<"Q", "\n">> >>,
        <<"a", "l", " ">>, <<"2", "0", "2", "5">>)

\* MinLen + 1 characters as written, MinLen - 1 once stripped
RowEdge ==
    Row(<<"2">>, TRUE, << <<" ">> \o Rep(MinLen - 1, "x") \o <<" ">> >>,
        <<"b", "o">>, <<>>)

RowShort == Row(<<"3">>, TRUE, <<Rep(40, "y")>>, <<"c">>, <<"2", "0", "2", "4">>)

\* three fragments, one of them blank; a quote, a backslash and a tab
RowQuote ==
    Row(<<>>, TRUE,
        <<Rep(MinLen, "p") \o <<"\"", "R">>, <<" ", " ">>, <<"\\", "n", "\t", "A">>>>,
        <<>>, <<>>)

RowNoBody == Row(<<"5">>, FALSE, <<>>, <<"d">>, <<>>)

Rows == {RowLong, RowEdge, RowShort, RowQuote, RowNoBody}

SeqsUpTo(S, n) == UNION {[1..k -> S] : k \in 0..n}

\* the pages the origin serves in the pipeline's runs
Pages == {<<RowLong, RowShort, RowQuote>>, <<RowEdge, RowNoBody>>}

NetOutcomes == {NetError(e) : e \in NetFailures} \cup {NetPage(rows) : rows \in Pages}

ToolArgs == {[query |-> q, job_id |-> j] :
                q \in {<<>>, <<"q">>}, j \in {<<>>, <<"1">>}}

(***************************************************************************)
(* State.                                                                  *)
(***************************************************************************)
NoCall ==
    [seq |-> 0, at |-> 0, hadFile |-> FALSE, age |-> 0,
     kind |-> "none", exc |-> None, result |-> <<>>,
     hit |-> FALSE, fetched |-> FALSE, fetchOk |-> FALSE]

\* the record of a scrape_job_postings call that ended as o
CallRecord(fs, t, tid, n, o) ==
    [seq |-> n, at |-> t,
     hadFile |-> fs[CacheFile(tid)].exists,
     age |-> IF fs[CacheFile(tid)].exists THEN t - fs[CacheFile(tid)].mtime ELSE 0,
     kind |-> o.kind, exc |-> o.exc, result |-> o.result,
     hit |-> o.hit, fetched |-> o.fetched, fetchOk |-> o.fetchOk]

\* how the last call of the adapter ended, and in what circumstances it was
\* made: whether it asks for the postings, whether its tool or resource is
\* a listed one, whether the default thread's snapshot was fresh, whether
\* the network was up
NoResp ==
    [seq |-> 0, call |-> "none", kind |-> "none", exc |-> None, msg |-> "",
     count |-> 0, body |-> <<>>, needsJobs |-> FALSE, listed |-> FALSE,
     fresh |-> FALSE, netOk |-> FALSE, ran |-> FALSE, fetched |-> FALSE]

RespRecord(n, call, needsJobs, listed, fresh, net, r) ==
    [seq |-> n, call |-> call, kind |-> r.kind, exc |-> r.exc, msg |-> r.msg,
     count |-> r.count, body |-> r.body, needsJobs |-> needsJobs, listed |-> listed,
     fresh |-> fresh, netOk |-> net.ok, ran |-> r.ran, fetched |-> r.ran /\ r.o.fetched]

MainInit ==
    /\ now = 0
    /\ cli = NoScraper
    /\ files = [p \in Paths |-> NoFile]
    /\ last = [tid \in ThreadIds |-> NoCall]
    /\ scraper = NoScraper
    /\ resp = NoResp

Init ==
    /\ MainInit
    /\ pc = "main"
    /\ pIn = <<>>
    /\ pOut = <<>>

(***************************************************************************)
(* Actions.                                                                *)
(***************************************************************************)
\* the calls made so far
NumCalls == resp.seq + last[DefaultThread].seq + last[OtherThread].seq

\* the instants at which calls are made: every age up to the TTL's edge
Instants == {0, TTL - 1, TTL, TTL + 1}

\* time passes
Tick ==
    /\ pc = "main"
    /\ \E t \in Instants : t > now /\ now' = t
    /\ UNCHANGED <<cli, files, last, scraper, resp, pc, pIn, pOut>>

\* scraper = HackerNewsScraper(), as scraper.py's __main__ does
NewScraper ==
    /\ pc = "main"
    /\ ~cli.made
    /\ cli' = HackerNewsScraperInit({}).obj
    /\ UNCHANGED <<now, files, last, scraper, resp, pc, pIn, pOut>>

\* scraper.scrape_job_postings(tid), called directly
Scrape ==
    /\ pc = "main"
    /\ cli.made
    /\ NumCalls < MaxCalls
    /\ \E tid \in ThreadIds, net \in NetOutcomes :
         \E io \in IoInputs :
            \E o \in {ScrapeJobPostings(files, now, tid, net, io)} :
                /\ files' = o.files
                /\ last' = [last EXCEPT ![tid] =
                               CallRecord(files, now, tid, last[tid].seq + 1, o)]
    /\ UNCHANGED <<now, cli, scraper, resp, pc, pIn, pOut>>

\* what a call of the adapter that ended as r leaves behind
AdapterEffect(call, needsJobs, listed, net, r) ==
    /\ resp' = RespRecord(resp.seq + 1, call, needsJobs, listed,
                          IsFresh(files[CacheFile(DefaultThread)], now), net, r)
    /\ scraper' = r.scraper
    /\ files' = IF r.ran THEN r.o.files ELSE files
    /\ last' = IF r.ran
               THEN [last EXCEPT ![DefaultThread] =
                        CallRecord(files, now, DefaultThread,
                                   last[DefaultThread].seq + 1, r.o)]
               ELSE last
    /\ UNCHANGED <<now, cli, pc, pIn, pOut>>

NeedsJobs(name, arguments) ==
    \/ name = "search_jobs" /\ arguments.query # <<>>
    \/ name = "get_job_details" /\ arguments.job_id # <<>>
    \/ name = "refresh_jobs"

\* a tools/call request
CallTool ==
    /\ pc = "main"
    /\ NumCalls < MaxCalls
    /\ \E name \in ToolNames, arguments \in ToolArgs, net \in NetOutcomes :
         \E io \in IoInputs :
            \E r \in {call_tool(scraper, files, now, name, arguments, net, io)} :
                AdapterEffect(name, NeedsJobs(name, arguments), name # "bogus", net, r)

\* a resources/read request
ReadResource ==
    /\ pc = "main"
    /\ NumCalls < MaxCalls
    /\ \E uri \in Uris, net \in NetOutcomes :
         \E io \in IoInputs :
            \E r \in {read_resource(scraper, files, now, uri, net, io)} :
                AdapterEffect("read_resource",
                              uri = [scheme |-> "hn", path |-> "jobs/latest"],
                              uri.scheme = "hn" /\ uri.path \in {"jobs/latest", "jobs/search"},
                              net, r)

Next == Tick \/ NewScraper \/ Scrape \/ CallTool \/ ReadResource

Spec == Init /\ [][Next]_vars

(***************************************************************************)
(* The extractor on its own: every page of up to MaxRows rows.             *)
(***************************************************************************)
InitExtract ==
    /\ MainInit
    /\ pc = "ready"
    /\ pIn \in [rows : SeqsUpTo(Rows, MaxRows), tid : {DefaultThread}, t : {TTL}]
    /\ pOut = <<>>

RunExtract ==
    /\ pc = "ready"
    /\ pOut' = Extract(pIn.rows, pIn.tid, pIn.t)
    /\ pc' = "done"
    /\ UNCHANGED <<now, cli, files, last, scraper, resp, pIn>>

SpecExtract == InitExtract /\ [][RunExtract]_vars

(***************************************************************************)
(* search_jobs on its own: every query of up to MaxQuery letters over      *)
(* every sequence of up to MaxPostings postings.                           *)
(***************************************************************************)
Letters == {"a", "A", "b", "B"}

SearchTexts == {<<>>, <<"a">>, <<"A", "b">>, <<"b", "A">>, <<"a", "B", "a">>, <<"B", "B">>}

SearchPosting(text) ==
    [id |-> <<"9">>, author |-> Unknown, timestamp |-> <<>>, text |-> text,
     scraped_at |-> IsoFormat(0), thread_id |-> DefaultThread]

InitSearch ==
    /\ MainInit
    /\ pc = "ready"
    /\ pIn \in [query : SeqsUpTo(Letters, MaxQuery),
                postings : SeqsUpTo({SearchPosting(x) : x \in SearchTexts}, MaxPostings)]
    /\ pOut = <<>>

RunSearch ==
    /\ pc = "ready"
    /\ pOut' = search_jobs(pIn.query, pIn.postings)
    /\ pc' = "done"
    /\ UNCHANGED <<now, cli, files, last, scraper, resp, pIn>>

SpecSearch == InitSearch /\ [][RunSearch]_vars

(***************************************************************************)
(* Claims about the pipeline and the adapter, under Spec.                  *)
(***************************************************************************)
\* this step is a scrape_job_postings call for tid
CallOn(tid) == last'[tid].seq = last[tid].seq + 1

Fetches(call) == IF call.fetched THEN 1 ELSE 0

FreshIffYoung ==
    \A tid \in ThreadIds :
        last[tid].seq > 0 =>
            /\ last[tid].hit = ~last[tid].fetched
            /\ last[tid].hit = (last[tid].hadFile /\ last[tid].age < 3600)

\* a snapshot exactly 3600 seconds old was refetched
StaleAtTtlSeen ==
    \E tid \in ThreadIds :
        last[tid].hadFile /\ last[tid].age = 3600 /\ last[tid].fetched /\ ~last[tid].hit

\* C3: when the fetch fails, the tool or resource call that asked for the
\* postings goes on with the empty sequence: it returns, reporting none.
FetchFailureGivesEmpty ==
    (resp.seq > 0 /\ resp.needsJobs /\ ~resp.netOk /\ ~resp.fresh)
    => (resp.kind = "return" /\ resp.ran /\ resp.fetched /\ resp.count = 0)

\* C4: every refresh_jobs call performs a fetch, also when the default
\* thread's snapshot is fresh, and reports the count of that extraction.
RefreshAlwaysFetches ==
    (resp.seq > 0 /\ resp.call = "refresh_jobs")
    => /\ resp.ran /\ resp.fetched
       /\ resp.kind = "return" => resp.count = Len(last[DefaultThread].result)

\* C5: the adapter's scraper has caching disabled, so every call of the
\* adapter that needs the postings runs the pipeline with a fetch, and no
\* call of the adapter writes a snapshot.
DisabledCacheAlwaysFetches ==
    [][resp'.seq = resp.seq + 1
       => /\ resp'.needsJobs => (resp'.ran /\ resp'.fetched)
          /\ files' = files]_vars

\* C6: no call of a listed tool or resource ends by raising.
NoCallRaises == (resp.seq > 0 /\ resp.listed) => resp.kind = "return"

\* C7: a snapshot file, whenever it exists, holds a complete snapshot: what
\* a reader finds in it decodes to a posting sequence.
SnapshotsAlwaysComplete ==
    \A tid \in ThreadIds :
        files[CacheFile(tid)].exists => JsonLoad(files[CacheFile(tid)].content).ok

\* C10: a call that hits the cache, or whose fetch fails, leaves every file
\* as it was, so that the call after a failed fetch fetches again; and no
\* call touches the snapshot of another thread id, or returns from the cache
\* anything but its own snapshot's postings.
FilesChangeOnlyOnFetch ==
    [][\A tid \in ThreadIds :
          CallOn(tid)
          => /\ (last'[tid].hit \/ ~last'[tid].fetchOk) => files' = files
             /\ \A other \in ThreadIds \ {tid} :
                   files'[CacheFile(other)] = files[CacheFile(other)]
             /\ (last[tid].fetched /\ ~last[tid].fetchOk) => last'[tid].fetched
             /\ (last'[tid].hit /\ last'[tid].kind = "return")
                   => last'[tid].result = JsonLoad(files[CacheFile(tid)].content).val]_vars

\* a stale snapshot outlived a failed fetch, beside another thread's snapshot
StaleSurvivedFailureSeen ==
    \E tid \in ThreadIds :
        /\ last[tid].hadFile /\ last[tid].age >= 3600
        /\ last[tid].fetched /\ ~last[tid].fetchOk /\ last[tid].kind = "return"
        /\ files[CacheFile(tid)].exists
        /\ files[CacheFile(tid)].mtime = last[tid].at - last[tid].age

(***************************************************************************)
(* The extractor's result, stated from the page.                           *)
(***************************************************************************)
\* the text of a row as the reader sees it: the fragments' text without
\* the white space around each
RECURSIVE Visible(_)
Visible(frags) ==
    IF frags = <<>> THEN <<>>
    ELSE LET f == Head(frags)
             solid == {i \in 1..Len(f) : f[i] \notin {" ", "\n", "\t"}}
             lo == CHOOSE i \in solid : \A j \in solid : i <= j
             hi == CHOOSE i \in solid : \A j \in solid : j <= i
         IN  (IF solid = {} THEN <<>> ELSE [i \in 1..(hi - lo + 1) |-> f[lo + i - 1]])
             \o Visible(Tail(frags))

Qualifies(row) == row.body.present /\ Len(Visible(row.body.frags)) >= 100

\* the k-th smallest member of a set of numbers
Kth(S, k) == CHOOSE i \in S : Cardinality({j \in S : j <= i}) = k

\* C8: the postings extracted from a page are exactly its rows that have a
\* body element whose stripped text has at least 100 characters, in document
\* order: no more postings than rows, and none shorter than 100.
ExtractIsTheLongRows ==
    pc = "done" =>
        LET kept == {i \in 1..Len(pIn.rows) : Qualifies(pIn.rows[i])}
        IN  /\ Len(pOut) = Cardinality(kept)
            /\ Len(pOut) <= Len(pIn.rows)
            /\ \A k \in 1..Len(pOut) :
                  /\ pOut[k].text = Visible(pIn.rows[Kth(kept, k)].body.frags)
                  /\ pOut[k].id = pIn.rows[Kth(kept, k)].id
                  /\ Len(pOut[k].text) >= 100

\* the spec's scenario: rows of 100, 40 and 100+ characters give rows 1 and 3
ExtractScenarioSeen ==
    /\ pc = "done"
    /\ pIn.rows = <<RowLong, RowShort, RowQuote>>
    /\ Len(pOut) = 2
    /\ pOut[1].id = RowLong.id
    /\ pOut[2].id = RowQuote.id

(***************************************************************************)
(* The search's result, stated letter by letter.                           *)
(***************************************************************************)
SameLetter(a, b) ==
    \/ a = b
    \/ {a, b} \in {{"a", "A"}, {"b", "B"}, {"q", "Q"}, {"r", "R"}}

Matches(query, text) ==
    \E k \in 0..(Len(text) - Len(query)) :
        \A i \in 1..Len(query) : SameLetter(text[k + i], query[i])

SwapCase(query) ==
    [i \in 1..Len(query) |->
        CASE query[i] = "a" -> "A"
          [] query[i] = "A" -> "a"
          [] query[i] = "b" -> "B"
          [] query[i] = "B" -> "b"
          [] OTHER -> query[i]]

\* C9: search_jobs returns exactly the postings whose text contains the
\* query, letter case ignored, in their order; so queries that differ only
\* in case agree, the empty query returns everything, and no postings give
\* none.
SearchIsCaseInsensitiveFilter ==
    pc = "done" =>
        LET kept == {i \in 1..Len(pIn.postings) : Matches(pIn.query, pIn.postings[i].text)}
        IN  /\ Len(pOut) = Cardinality(kept)
            /\ \A k \in 1..Len(pOut) : pOut[k] = pIn.postings[Kth(kept, k)]
            /\ search_jobs(SwapCase(pIn.query), pIn.postings) = pOut
            /\ (pIn.query = <<>> => pOut = pIn.postings)
            /\ (pIn.postings = <<>> => pOut = <<>>)

\* a mixed-case query found some postings and left others out
SearchCaseSeen ==
    /\ pc = "done"
    /\ pIn.query = <<"A", "b">>
    /\ pIn.postings = <<SearchPosting(<<"a", "B", "a">>), SearchPosting(<<"b", "A">>)>>
    /\ pOut = <<SearchPosting(<<"a", "B", "a">>)>>

====
